---- MODULE Spec2Model ----
(***************************************************************************)
(* A model of attached_assets/YouTubeapi_1758005096153.py: the channel     *)
(* resolver, the paginated video lister, the batched detail fetcher and    *)
(* the classifier with its text heuristics.                                *)
(*                                                                         *)
(* A Python str is a sequence of one-character strings.  None is the       *)
(* model value None; a JSON object is a record, and a key the object lacks *)
(* is a field outside the record's DOMAIN.                                 *)
(***************************************************************************)
EXTENDS Integers, Sequences, FiniteSets, TLC

None == "None"

Min(a, b) == IF a <= b THEN a ELSE b

\* ---------------------------------------------------------------- characters

UpperAZ == {"A","B","C","D","E","F","G","H","I","J","K","L","M",
            "N","O","P","Q","R","S","T","U","V","W","X","Y","Z"}

LowerAZ == {"a","b","c","d","e","f","g","h","i","j","k","l","m",
            "n","o","p","q","r","s","t","u","v","w","x","y","z"}

Digits == {"0","1","2","3","4","5","6","7","8","9"}

\* str.strip() and the regular expression's \s: whitespace
Whitespace == {" ", "\t", "\n", "\r", "\f"}

\* the characters of \w, which decide where \b holds
WordChars == UpperAZ \cup LowerAZ \cup Digits \cup {"_"}

\* ------------------------------------------------------------------ str ops

RECURSIVE LStrip(_)
LStrip(s) ==
    IF s # <<>> /\ Head(s) \in Whitespace THEN LStrip(Tail(s)) ELSE s

RECURSIVE RStrip(_)
RStrip(s) ==
    IF s # <<>> /\ s[Len(s)] \in Whitespace
    THEN RStrip(SubSeq(s, 1, Len(s) - 1)) ELSE s

\* str.strip()
Strip(s) == RStrip(LStrip(s))

\* str.split(sep) for a one-character sep: the pieces between the separators,
\* always at least one piece
RECURSIVE Split(_, _)
Split(s, sep) ==
    IF \E k \in 1..Len(s) : s[k] = sep
    THEN LET k == CHOOSE k \in 1..Len(s) :
                    s[k] = sep /\ \A j \in 1..(k - 1) : s[j] # sep
         IN  <<SubSeq(s, 1, k - 1)>> \o Split(SubSeq(s, k + 1, Len(s)), sep)
    ELSE <<s>>

\* sep.join(parts)
RECURSIVE Join(_, _)
Join(sep, parts) ==
    IF parts = <<>> THEN <<>>
    ELSE IF Len(parts) = 1 THEN parts[1]
    ELSE parts[1] \o sep \o Join(sep, Tail(parts))

\* seq[0:n]
Take(s, n) == SubSeq(s, 1, Min(n, Len(s)))

\* [x for x in seq if x], for sequences of strings
RECURSIVE NonEmpty(_)
NonEmpty(parts) ==
    IF parts = <<>> THEN <<>>
    ELSE IF Head(parts) # <<>> THEN <<Head(parts)>> \o NonEmpty(Tail(parts))
    ELSE NonEmpty(Tail(parts))

\* ------------------------------------------------------------- clean_title

TitleSeparators == {"-", "|"}

\* re.split(r"[-|]", title)[0]: the text before the first separator, the
\* whole title when it has none
FirstPart(title) ==
    IF \E k \in 1..Len(title) : title[k] \in TitleSeparators
    THEN LET k == CHOOSE k \in 1..Len(title) :
                    /\ title[k] \in TitleSeparators
                    /\ \A j \in 1..(k - 1) : title[j] \notin TitleSeparators
         IN  SubSeq(title, 1, k - 1)
    ELSE title

clean_title_nostrip(title) == FirstPart(title)

clean_title(title) == Strip(FirstPart(title))

\* ----------------------------------------------------------- extract_stars

\* the end of the [a-z]+ that starts at j (s[j] is lower case)
RECURSIVE LowerEnd(_, _)
LowerEnd(s, j) ==
    IF j + 1 <= Len(s) /\ s[j + 1] \in LowerAZ THEN LowerEnd(s, j + 1) ELSE j

\* [A-Z][a-z]+ matches at j
WordAt(s, j) ==
    /\ j + 1 <= Len(s)
    /\ s[j] \in UpperAZ
    /\ s[j + 1] \in LowerAZ

\* (?:\s[A-Z][a-z]+)* after a word that ends at e, greedy
RECURSIVE RunEnd(_, _)
RunEnd(s, e) ==
    IF e + 1 <= Len(s) /\ s[e + 1] \in Whitespace /\ WordAt(s, e + 2)
    THEN RunEnd(s, LowerEnd(s, e + 3))
    ELSE e

\* \b[A-Z][a-z]+ matches at i: \b before a word character holds at the
\* start of the text and after a non-word character
MatchAt(s, i) ==
    /\ (i = 1 \/ s[i - 1] \notin WordChars)
    /\ WordAt(s, i)

\* re.findall(r"\b[A-Z][a-z]+(?:\s[A-Z][a-z]+)*", s), scanning from i
RECURSIVE FindAll(_, _)
FindAll(s, i) ==
    IF i > Len(s) THEN <<>>
    ELSE IF MatchAt(s, i)
         THEN LET e == RunEnd(s, LowerEnd(s, i + 1))
              IN  <<SubSeq(s, i, e)>> \o FindAll(s, e + 1)
         ELSE FindAll(s, i + 1)

Latest == <<"L","a","t","e","s","t">>
Yoruba == <<"Y","o","r","u","b","a">>
Movie == <<"M","o","v","i","e">>
Drama == <<"D","r","a","m","a">>
Part == <<"P","a","r","t">>
Episode == <<"E","p","i","s","o","d","e">>

ignore == {Latest, Yoruba, Movie, Drama, Part, Episode}

\* [m for m in matches if m not in ignore]
RECURSIVE NotIgnored(_)
NotIgnored(matches) ==
    IF matches = <<>> THEN <<>>
    ELSE IF Head(matches) \notin ignore
         THEN <<Head(matches)>> \o NotIgnored(Tail(matches))
         ELSE NotIgnored(Tail(matches))

KeepAll(stars) == stars

\* list(dict.fromkeys(stars)): each value once, at its first place
RECURSIVE Unique(_)
Unique(stars) ==
    IF stars = <<>> THEN <<>>
    ELSE LET init == SubSeq(stars, 1, Len(stars) - 1)
             last == stars[Len(stars)]
         IN  IF \E k \in 1..Len(init) : init[k] = last
             THEN Unique(init)
             ELSE Unique(init) \o <<last>>

extract_stars(title, description) ==
    LET combined == title \o <<" ">> \o description
    IN  Unique(NotIgnored(FindAll(combined, 1)))

\* ------------------------------------------------------------- JSON access

\* obj.get(key, default)
Get(obj, key, default) == IF key \in DOMAIN obj THEN obj[key] ELSE default

\* ----------------------------------------------------------------- constants

CHANNEL_HANDLE == "itelediconstudio"

\* range(0, len(all_ids), 50) and all_ids[i:i+50]
BatchSize == 50

\* skip trailers (less than 15 min)
MinMinutes == 15

\* first 5 lines only
DescriptionLines == 5

\* m['description'][:300]
DisplayLen == 300

\* ------------------------------------------------------------- the classifier

\* isodate.parse_duration(...).total_seconds() of PT<hours>H<minutes>M<seconds>S
total_seconds(iso) == iso.hours * 3600 + iso.minutes * 60 + iso.seconds

MinutesRoundedUp(seconds) == (seconds + 59) \div 60

\* int(d["duration"] // 60)
Minutes(seconds) == seconds \div 60

FirstLinesButOne(description) ==
    Take(Split(description, "\n"), DescriptionLines - 1)

\* d["description"].split("\n")[0:5]
FirstLines(description) == Take(Split(description, "\n"), DescriptionLines)

RECURSIVE StripEach(_)
StripEach(lines) ==
    IF lines = <<>> THEN <<>>
    ELSE <<Strip(Head(lines))>> \o StripEach(Tail(lines))

\* " ".join([x.strip() for x in desc if x.strip()])
JoinedDescription(description) ==
    Join(<<" ">>, NonEmpty(StripEach(FirstLines(description))))

Unknown == <<"U","n","k","n","o","w","n">>
NoDescription == <<"N","o"," ","d","e","s","c","r","i","p","t","i","o","n">>

\* the dict appended to movies for a video v whose details are d
MovieRecord(v, d) ==
    LET stars == extract_stars(v.title, d.description)
        desc  == JoinedDescription(d.description)
    IN  [ title       |-> clean_title(v.title),
          category    |-> d.category,
          stars       |-> IF stars # <<>> THEN stars ELSE <<Unknown>>,
          duration    |-> Minutes(d.duration),
          description |-> IF desc # <<>> THEN desc ELSE NoDescription ]

\* one pass of the loop body over a video: nothing for a video without
\* details or under 15 minutes, else its record
Classify(v, details) ==
    IF v.videoId \notin DOMAIN details THEN <<>>
    ELSE IF Minutes(details[v.videoId].duration) < MinMinutes THEN <<>>
    ELSE <<MovieRecord(v, details[v.videoId])>>

RECURSIVE ClassifyReversed(_, _)
ClassifyReversed(vs, details) ==
    IF vs = <<>> THEN <<>>
    ELSE ClassifyReversed(Tail(vs), details) \o Classify(Head(vs), details)

\* for v in videos[i:i+50]: ... movies.append(...)
RECURSIVE ClassifyBatch(_, _)
ClassifyBatch(vs, details) ==
    IF vs = <<>> THEN <<>>
    ELSE Classify(Head(vs), details) \o ClassifyBatch(Tail(vs), details)

\* the dict get_video_details builds from the items of a response
DetailsOf(resp) ==
    LET items == Get(resp, "items", <<>>)
        ids   == {items[k].id : k \in 1..Len(items)}
        \* a later item with the same id overwrites an earlier one
        last(vid) == CHOOSE k \in 1..Len(items) :
                        /\ items[k].id = vid
                        /\ \A j \in (k + 1)..Len(items) : items[j].id # vid
    IN  [vid \in ids |->
            LET item == items[last(vid)]
            IN  [ duration    |-> total_seconds(item.contentDetails.duration),
                  category    |-> Get(item.snippet, "categoryId", "Unknown"),
                  description |-> Get(item.snippet, "description", <<>>) ]]

\* ------------------------------------------------------------------- state

VARIABLES
    pc,            \* where main() is: "main", the function blocked in
                   \* requests.get, "done" or "failed"
    stdout,        \* what print() has written, in order
    error,         \* the exception that ended the run, or None
    outstanding,   \* the requests sent and not yet answered
    requests,      \* every request sent, in order
    lookups,       \* the items of the channel-lookup response, once answered
    pages,         \* the items and the token of every search response, in order
    responses,     \* the details dict of every detail response, in order
    channel_id,    \* main's channel_id
    videos,        \* get_channel_videos' videos, then main's
    page_token,    \* get_channel_videos' page_token
    i,             \* main's batch offset
    movies,        \* main's movies
    unit           \* one pass of the classifier on its own (SpecClassify)

pvars == <<pc, stdout, error, outstanding, requests, lookups, pages,
           responses, channel_id, videos, page_token, i, movies>>

vars == <<pc, stdout, error, outstanding, requests, lookups, pages,
          responses, channel_id, videos, page_token, i, movies, unit>>

\* ------------------------------------------------------------------ bounds

\* the search answers at most this many pages: the last one carries no token
MaxPages == 2

\* the number of ways the remote service chooses what a detail response holds
DetailPatterns == 2

\* the longest title and description, the most name-like tokens in a title
\* and description together, and the most hours the classifier is run on
MaxTitleLen == 4
MaxDescLen == 6
MaxTokens == 4
MaxHours == 1

\* ------------------------------------------------------- the remote service

ChannelIds == {"UC1", "UC2"}

\* the responses of the channel lookup: no items key, no item, one or two
ChannelResponses ==
    {[kind |-> "youtube#channelListResponse"]}
    \cup {[items |-> <<>>]}
    \cup {[items |-> <<[id |-> c]>>] : c \in ChannelIds}
    \cup {[items |-> <<[id |-> c], [id |-> d]>>] :
              c \in ChannelIds, d \in ChannelIds}

\* the titles the service lists, by video id
ListedTitles ==
    << <<"K","e"," ","|","x">>,
       <<"a">>,
       <<" ","B","o","-","P","a">> >>

\* the search result for video id n; every other snippet has no description
SearchItem(n) ==
    [ id      |-> [videoId |-> n],
      snippet |-> IF n % 2 = 0
                  THEN [title |-> ListedTitles[(n % Len(ListedTitles)) + 1]]
                  ELSE [title |-> ListedTitles[(n % Len(ListedTitles)) + 1],
                        description |-> <<"s">>] ]

\* a page of k results whose ids start at first
SearchPage(first, k) == [j \in 1..k |-> SearchItem(first + j - 1)]

\* maxResults=50: a page holds one result or is full
PageSizes == {1, 50}

NoToken == ""

\* the continuation token the service gives after its p-th page
TokenAfter(p) == IF p = 1 THEN "CAEQAA" ELSE IF p = 2 THEN "CAIQAA" ELSE "CAMQAA"

\* obj with key set to val
With(obj, key, val) ==
    [k \in DOMAIN obj \cup {key} |-> IF k = key THEN val ELSE obj[k]]

\* the responses to the p-th search request when n results were listed before
\* it.  The items key is missing, or the page holds the next results, or it
\* holds the first video of the channel once more (the listing moved between
\* two requests); the token key is missing, or the token is empty or a
\* continuation (never one on page MaxPages)
SearchResponses(p, n) ==
    LET base   == [kind |-> "youtube#searchListResponse"]
        paged  == {base, With(base, "items", SearchPage(1, 1))} \cup
                  {With(base, "items", SearchPage(n + 1, k)) : k \in PageSizes}
        tokens == {NoToken} \cup
                  (IF p < MaxPages THEN {TokenAfter(p)} ELSE {})
    IN  paged \cup {With(r, "nextPageToken", t) : r \in paged, t \in tokens}

\* what the service holds about a video when it answers a detail request:
\* nothing (deleted or private since the listing) or its details
Catalogue ==
    << [present |-> FALSE],
       [present |-> TRUE,
        contentDetails |-> [duration |-> [hours |-> 0, minutes |-> 14, seconds |-> 59]],
        snippet |-> [categoryId |-> "1", description |-> <<"B","o">>]],
       [present |-> TRUE,
        contentDetails |-> [duration |-> [hours |-> 0, minutes |-> 15, seconds |-> 0]],
        snippet |-> [title |-> <<"a">>]],
       [present |-> TRUE,
        contentDetails |-> [duration |-> [hours |-> 1, minutes |-> 30, seconds |-> 59]],
        snippet |-> [categoryId |-> "24",
                     description |-> <<"A","d",",","\n"," ","A","d">>]] >>

CatalogueEntry(pattern, vid) == Catalogue[((vid + pattern) % Len(Catalogue)) + 1]

RECURSIVE DetailItems(_, _)
DetailItems(pattern, ids) ==
    IF ids = <<>> THEN <<>>
    ELSE LET e == CatalogueEntry(pattern, Head(ids))
         IN  (IF e.present
              THEN <<[id |-> Head(ids), contentDetails |-> e.contentDetails,
                      snippet |-> e.snippet]>>
              ELSE <<>>) \o DetailItems(pattern, Tail(ids))

\* the responses to a detail request for ids
DetailResponses(ids) ==
    {[items |-> DetailItems(p, ids)] : p \in 0..(DetailPatterns - 1)}
    \cup {[kind |-> "youtube#videoListResponse"]}

\* -------------------------------------------------------------- requests.get

ChannelRequest(handle) ==
    [endpoint |-> "channels", forHandle |-> handle, channelId |-> None,
     pageToken |-> None, id |-> <<>>]

\* if page_token: url += f"&pageToken={page_token}"
SearchRequest(cid, token) ==
    [endpoint |-> "search", forHandle |-> None, channelId |-> cid,
     pageToken |-> token, id |-> <<>>]

VideosRequest(ids) ==
    [endpoint |-> "videos", forHandle |-> None, channelId |-> None,
     pageToken |-> None, id |-> ids]

\* requests.get(url) blocks until the response arrives
Send(req) ==
    /\ requests' = Append(requests, req)
    /\ outstanding' = {Len(requests) + 1}

\* ------------------------------------------------------------------- helpers

NeverTruthy(token) == FALSE

\* the truth value of page_token: None and "" are false
Truthy(token) == token # None /\ token # NoToken

LastItemId(items) == items[Len(items)].id

\* resp["items"][0]["id"]
FirstItemId(items) == items[1].id

\* the dicts get_channel_videos appends for the items of a page
VideoRecords(items) ==
    [k \in 1..Len(items) |->
        [ videoId     |-> items[k].id.videoId,
          title       |-> items[k].snippet.title,
          description |-> Get(items[k].snippet, "description", <<>>) ]]

\* videos after the items of a page are appended
Extend(vs, items) == vs \o VideoRecords(items)

\* all_ids = [v["videoId"] for v in videos]
AllIds(vs) == [k \in 1..Len(vs) |-> vs[k].videoId]

ShortSlice(seq, from) == SubSeq(seq, from + 1, Min(from + BatchSize - 1, Len(seq)))

\* seq[i:i+50]
Slice(seq, from) == SubSeq(seq, from + 1, Min(from + BatchSize, Len(seq)))

BlankLine(kind) ==
    [kind |-> kind, title |-> <<>>, category |-> "", stars |-> <<>>,
     duration |-> 0, description |-> <<>>]

\* print("Starting movie fetch...")
Banner == BlankLine("Starting movie fetch...")

\* print("No full movies found.")
NoMovies == BlankLine("No full movies found.")

\* the lines printed for one movie
MovieLines(m) ==
    [kind |-> "New Movie Added!", title |-> m.title, category |-> m.category,
     stars |-> Join(<<",", " ">>, m.stars), duration |-> m.duration,
     description |-> Take(m.description, DisplayLen)]

\* the if/else after the loop
PrintMovies(ms) ==
    IF ms = <<>> THEN <<NoMovies>>
    ELSE [k \in 1..Len(ms) |-> MovieLines(ms[k])]

StdoutPrintedPerBatch(out, ms, more) == out \o PrintMovies(ms)

\* stdout once a batch is classified: the movies are printed after the loop
StdoutAfterBatch(out, ms, more) == IF more THEN out ELSE out \o PrintMovies(ms)

\* the classifier's own state outside SpecClassify: nothing to classify
UnitIdle ==
    [video |-> [videoId |-> 1, title |-> <<>>, description |-> <<>>],
     resp |-> [kind |-> "youtube#videoListResponse"],
     ran |-> FALSE, movies |-> <<>>]

\* --------------------------------------------------------------------- Init

Init ==
    /\ pc = "main"
    /\ stdout = <<>>
    /\ error = None
    /\ outstanding = {}
    /\ requests = <<>>
    /\ lookups = <<>>
    /\ pages = <<>>
    /\ responses = <<>>
    /\ channel_id = None
    /\ videos = <<>>
    /\ page_token = None
    /\ i = 0
    /\ movies = <<>>
    /\ unit = UnitIdle

\* ------------------------------------------------------------------ actions

\* main() up to the request of get_channel_id
Main ==
    /\ pc = "main"
    /\ stdout' = Append(stdout, Banner)
    /\ Send(ChannelRequest(CHANNEL_HANDLE))
    /\ pc' = "get_channel_id"
    /\ UNCHANGED <<error, lookups, pages, responses, channel_id, videos,
                   page_token, i, movies, unit>>

\* requests.get(...) or .json() raises: nothing catches it
RequestFails ==
    /\ pc \in {"get_channel_id", "get_channel_videos", "get_video_details"}
    /\ pc' = "failed"
    /\ error' = "RequestException"
    /\ outstanding' = {}
    /\ UNCHANGED <<stdout, requests, lookups, pages, responses,
                   channel_id, videos, page_token, i, movies, unit>>

\* the channel lookup is answered: get_channel_id finishes and
\* get_channel_videos runs up to its first request
GetChannelIdReturns ==
    /\ pc = "get_channel_id"
    /\ \E resp \in ChannelResponses :
         /\ lookups' = Append(lookups, Get(resp, "items", <<>>))
         /\ IF "items" \notin DOMAIN resp \/ resp.items = <<>>
            THEN /\ pc' = "failed"
                 /\ error' = "ValueError"
                 /\ outstanding' = {}
                 /\ UNCHANGED <<requests, channel_id>>
            ELSE /\ channel_id' = FirstItemId(resp.items)
                 /\ Send(SearchRequest(channel_id', None))
                 /\ pc' = "get_channel_videos"
                 /\ UNCHANGED error
    /\ UNCHANGED <<stdout, pages, responses, videos, page_token, i, movies, unit>>

\* a search page is answered: the loop body of get_channel_videos, then the
\* next request; after the last page main runs up to its first detail
\* request, or to its end when nothing was listed
GetChannelVideosReturns ==
    /\ pc = "get_channel_videos"
    /\ \E resp \in SearchResponses(Len(pages) + 1, Len(videos)) :
         LET items == Get(resp, "items", <<>>)
             token == Get(resp, "nextPageToken", None)
             vs    == Extend(videos, items)
         IN  /\ pages' = Append(pages, [items |-> items, token |-> token])
             /\ videos' = vs
             /\ page_token' = token
             /\ IF Truthy(token)
                THEN /\ Send(SearchRequest(channel_id, token))
                     /\ UNCHANGED <<pc, stdout>>
                ELSE IF Len(vs) > 0
                THEN /\ Send(VideosRequest(Slice(AllIds(vs), 0)))
                     /\ pc' = "get_video_details"
                     /\ UNCHANGED stdout
                ELSE /\ stdout' = stdout \o PrintMovies(<<>>)
                     /\ pc' = "done"
                     /\ outstanding' = {}
                     /\ UNCHANGED requests
    /\ UNCHANGED <<error, lookups, responses, channel_id, i, movies, unit>>

\* a detail batch is answered: get_video_details builds its dict, main
\* classifies videos[i:i+50], then sends the next batch or prints
GetVideoDetailsReturns ==
    /\ pc = "get_video_details"
    /\ \E resp \in DetailResponses(Slice(AllIds(videos), i)) :
         LET details == DetailsOf(resp)
             ms      == movies \o ClassifyBatch(Slice(videos, i), details)
             more    == i + BatchSize < Len(videos)
         IN  /\ responses' = Append(responses, details)
             /\ movies' = ms
             /\ stdout' = StdoutAfterBatch(stdout, ms, more)
             /\ IF more
                THEN /\ i' = i + BatchSize
                     /\ Send(VideosRequest(Slice(AllIds(videos), i')))
                     /\ UNCHANGED pc
                ELSE /\ pc' = "done"
                     /\ outstanding' = {}
                     /\ UNCHANGED <<requests, i>>
    /\ UNCHANGED <<error, lookups, pages, channel_id, videos, page_token,
                   unit>>

Next ==
    \/ Main
    \/ RequestFails
    \/ GetChannelIdReturns
    \/ GetChannelVideosReturns
    \/ GetVideoDetailsReturns

Spec == Init /\ [][Next]_vars

\* ------------------------------------------------- the classifier on its own

TitleAlphabet == {"a", " ", "-", "|"}

DescAlphabet == {"a", " ", "\n"}

StarTokens == {<<"B","o","l","a">>, Part, <<" ">>, <<"-">>, <<"a">>}

ScenarioTitle == <<"A","y","e"," ","I","f","e"," ","-"," ","L","a","t","e","s","t"," ","Y","o","r","u","b","a"," ","M","o","v","i","e"," ","2","0","2","3"," ","S","t","a","r","r","i","n","g"," ","B","o","l","a"," ","A","i","n","a">>

ScenarioDescription == <<"A"," ","r","o","m","a","n","t","i","c"," ","d","r","a","m","a",".","\n","S","t","a","r","r","i","n","g"," ","B","o","l","a"," ","A","i","n","a"," ","a","n","d"," ","K","e","m","i"," ","A","f","o","l","a","b","i",".","\n","\n","\n">>

\* PT<h>H<m>M<s>S
Iso(h, m, s) == [hours |-> h, minutes |-> m, seconds |-> s]

\* a listed video with this title and the detail response that holds it
UnitCase(title, iso, description) ==
    [video |-> [videoId |-> 1, title |-> title, description |-> <<>>],
     resp |-> [items |-> <<[id |-> 1,
                            contentDetails |-> [duration |-> iso],
                            snippet |-> [categoryId |-> "1",
                                         description |-> description]]>>],
     ran |-> FALSE, movies |-> <<>>]

\* the classifier starts on a title, on a description, on a token list cut
\* into a title and a description, on a duration around the 15 minute
\* threshold, on the scenario of 90 minutes and its 10 minute variant, or on
\* a video that its detail response does not hold
InitClassify ==
    /\ pc = "main"
    /\ stdout = <<>>
    /\ error = None
    /\ outstanding = {}
    /\ requests = <<>>
    /\ lookups = <<>>
    /\ pages = <<>>
    /\ responses = <<>>
    /\ channel_id = None
    /\ videos = <<>>
    /\ page_token = None
    /\ i = 0
    /\ movies = <<>>
    /\ \/ \E k \in 0..MaxTitleLen : \E t \in [1..k -> TitleAlphabet] :
             unit = UnitCase(t, Iso(0, 15, 0), <<>>)
       \/ \E k \in 0..MaxDescLen : \E d \in [1..k -> DescAlphabet] :
             unit = UnitCase(<<"a">>, Iso(0, 15, 0), d)
       \/ \E k \in 0..MaxTokens : \E ts \in [1..k -> StarTokens] : \E j \in 0..k :
             unit = UnitCase(Join(<<>>, SubSeq(ts, 1, j)), Iso(0, 15, 0),
                             Join(<<>>, SubSeq(ts, j + 1, k)))
       \/ \E h \in 0..MaxHours, m \in {0, 10, 14, 15, 16, 59, 90}, sec \in {0, 1, 59} :
             unit = UnitCase(<<"a">>, Iso(h, m, sec), <<>>)
       \/ \E sec \in {5400, 600} :
             unit = UnitCase(ScenarioTitle, Iso(0, 0, sec), ScenarioDescription)
       \/ unit = [UnitIdle EXCEPT !.video.title = <<"a">>]

\* get_video_details' dict for the response and one pass of main's loop
\* over the video
ClassifyVideo ==
    /\ ~unit.ran
    /\ unit' = [unit EXCEPT !.ran = TRUE,
                            !.movies = ClassifyBatch(<<unit.video>>, DetailsOf(unit.resp))]
    /\ UNCHANGED pvars

NextClassify == ClassifyVideo

SpecClassify == InitClassify /\ [][NextClassify]_vars

\* ------------------------------------------------ properties of the pipeline

IsSearch(r) == r.endpoint = "search"
IsDetail(r) == r.endpoint = "videos"

SearchRequests == SelectSeq(requests, IsSearch)
DetailRequests == SelectSeq(requests, IsDetail)

\* the search loop has ended: a page came back without a usable token
ListingEnded ==
    /\ pages # <<>>
    /\ pages[Len(pages)].token \in {None, NoToken}

\* the listed positions whose batch has been answered
Processed == 1..Min(Len(videos), Len(responses) * BatchSize)

\* the details dict of the request that carried position p
ResponseFor(p) == responses[((p - 1) \div BatchSize) + 1]

\* position p is a movie: the video is in the response of its own request
\* and lasts 15 minutes or more
IsKept(p) ==
    /\ videos[p].videoId \in DOMAIN ResponseFor(p)
    /\ ResponseFor(p)[videos[p].videoId].duration >= MinMinutes * 60

\* the answered positions that are movies, as a set and in listing order
KeptPositions == {p \in Processed : IsKept(p)}

RECURSIVE KeptUpTo(_)
KeptUpTo(p) ==
    IF p = 0 THEN <<>>
    ELSE KeptUpTo(p - 1) \o (IF IsKept(p) THEN <<p>> ELSE <<>>)

\* the j-th smallest element of a set of numbers
Nth(S, j) == CHOOSE p \in S : Cardinality({q \in S : q < p}) = j - 1

MovieLinesIn(out) == {k \in 1..Len(out) : out[k].kind = "New Movie Added!"}

\* C2: the movies are in the order their videos were listed, across all
\* batches; a video missing from its batch's response gives no record, and
\* the videos after it, in its batch and in later ones, are still classified.
C2_ListingOrderKept ==
    /\ LET kept == KeptUpTo(Cardinality(Processed))
       IN  /\ Len(movies) = Len(kept)
           /\ \A j \in 1..Len(movies) :
                 movies[j] = MovieRecord(videos[kept[j]],
                                         ResponseFor(kept[j])[videos[kept[j]].videoId])
    /\ pc = "done" => /\ error = None
                      /\ Processed = 1..Len(videos)
                      /\ stdout = <<Banner>> \o PrintMovies(movies)

\* a finished run of two batches in which a video missing from its response
\* sits between two movies of the first batch, and the second batch, whose
\* own first video is missing too, still gives a movie
C2_Witness ==
    /\ pc = "done"
    /\ Len(responses) = 2
    /\ \E a, b, c \in 1..BatchSize :
         /\ a < b /\ b < c
         /\ a \in KeptPositions /\ c \in KeptPositions
         /\ videos[b].videoId \notin DOMAIN ResponseFor(b)
    /\ videos[BatchSize + 1].videoId \notin DOMAIN responses[2]
    /\ \E p \in KeptPositions : p > BatchSize + 1

\* C3: a channel lookup answered without items ends the run with the
\* resolution failure: the lookup is the only request ever sent and the
\* banner the only output; a lookup answered with items makes the id of the
\* first item the channel of every search request.
C3_ResolutionFailureStops ==
    /\ (lookups # <<>> /\ lookups[1] = <<>>) =>
          /\ pc = "failed" /\ error = "ValueError"
          /\ requests = <<ChannelRequest(CHANNEL_HANDLE)>>
          /\ outstanding = {}
          /\ stdout = <<Banner>>
          /\ ~ENABLED Next
    /\ (lookups # <<>> /\ lookups[1] # <<>>) =>
          /\ SearchRequests # <<>>
          /\ \A k \in 1..Len(SearchRequests) :
                SearchRequests[k].channelId = lookups[1][1].id
    /\ SearchRequests # <<>> => (lookups # <<>> /\ lookups[1] # <<>>)

\* the lookup was answered without items and the run has ended
C3_Witness ==
    /\ lookups = << <<>> >>
    /\ pc = "failed"

\* the lookup was answered with two different channels and a second page
\* of the first one is being requested
C3_WitnessFirstItem ==
    /\ lookups # <<>> /\ Len(lookups[1]) = 2
    /\ lookups[1][1].id # lookups[1][2].id
    /\ Len(SearchRequests) = 2

\* the items of the first k pages, in order
RECURSIVE PagesItems(_)
PagesItems(k) ==
    IF k = 0 THEN <<>> ELSE PagesItems(k - 1) \o pages[k].items

\* C4: the first search request carries no token; a further one is sent
\* exactly when the page before it came with a (non-empty) token, and it
\* carries that token; the page without one ends the listing, and the
\* videos are the items of every page returned, in request order, none
\* dropped and none added.
C4_PaginationFollowsTokens ==
    /\ Len(pages) <= Len(SearchRequests)
    /\ Len(SearchRequests) <= Len(pages) + 1
    /\ SearchRequests # <<>> => SearchRequests[1].pageToken = None
    /\ \A k \in 1..Len(pages) :
         IF pages[k].token \in {None, NoToken}
         THEN /\ k = Len(pages)
              /\ Len(SearchRequests) = k
              /\ pc \in {"get_video_details", "done", "failed"}
         ELSE /\ Len(SearchRequests) > k
              /\ SearchRequests[k + 1].pageToken = pages[k].token
    /\ LET items == PagesItems(Len(pages))
       IN  /\ Len(videos) = Len(items)
           /\ \A p \in 1..Len(videos) :
                 /\ videos[p].videoId = items[p].id.videoId
                 /\ videos[p].title = items[p].snippet.title

\* two pages were returned, the first with a token and both with items,
\* and the listing has ended with all their items
C4_Witness ==
    /\ Len(pages) = 2
    /\ pages[1].token = TokenAfter(1)
    /\ pages[2].token = NoToken
    /\ pages[1].items # <<>> /\ Len(pages[2].items) = 1
    /\ Len(videos) = Len(pages[1].items) + 1
    /\ pc = "get_video_details"

\* C9: a listing of n ids is sent in ceil(n / 50) detail requests, none for
\* n = 0; the r-th carries the r-th slice of 50 of the listing (the last one
\* what is left, at least one id), so every listed position is sent once;
\* and a video is a movie only by the response of the request that carried it.
C9_BatchesOfFifty ==
    LET n   == Len(videos)
        ids == [p \in 1..n |-> videos[p].videoId]
        D   == DetailRequests
    IN  /\ \A r \in 1..Len(D) :
             /\ D[r].id = SubSeq(ids, (r - 1) * 50 + 1, Min(r * 50, n))
             /\ Len(D[r].id) \in 1..50
        /\ D # <<>> => ListingEnded
        /\ Len(D) * 50 < n + 50
        /\ Len(responses) <= Len(D)
        /\ pc = "done" => /\ Len(D) = (n + 49) \div 50
                          /\ Len(responses) = Len(D)
        /\ Len(movies) = Cardinality(KeptPositions)

\* a finished run over 51 listed videos: a request of 50 ids, then one of 1;
\* the video listed first and again last is a movie by one response only
C9_Witness ==
    /\ pc = "done"
    /\ Len(videos) = 51
    /\ Len(DetailRequests) = 2
    /\ Len(DetailRequests[1].id) = 50
    /\ Len(DetailRequests[2].id) = 1
    /\ videos[51].videoId = videos[1].videoId
    /\ 1 \in KeptPositions
    /\ 51 \notin KeptPositions

\* C10: at most one request is outstanding, and only while main is blocked
\* in it; the requests are one channel lookup, then the search pages, then
\* the detail batches; a failed request ends the run at once, with no
\* further request; and movies are printed only when the run is done, so a
\* failure leaves none printed, whatever earlier batches gave.
C10_SequentialAndAllOrNothing ==
    /\ Cardinality(outstanding) <= 1
    /\ IF pc \in {"get_channel_id", "get_channel_videos", "get_video_details"}
       THEN outstanding = {Len(requests)}
       ELSE outstanding = {}
    /\ \A k \in 1..Len(requests) :
         /\ (requests[k].endpoint = "channels") = (k = 1)
         /\ \A j \in 1..k : IsDetail(requests[j]) => IsDetail(requests[k])
    /\ Len(requests) = Len(lookups) + Len(pages) + Len(responses)
                         + Cardinality(outstanding)
                         + (IF error = "RequestException" THEN 1 ELSE 0)
    /\ pc = "failed" => /\ error # None
                        /\ ~ENABLED Next
    /\ MovieLinesIn(stdout) # {} => pc = "done"

\* the second detail request failed after the first batch gave movies:
\* only the banner was printed
C10_Witness ==
    /\ pc = "failed"
    /\ error = "RequestException"
    /\ Len(DetailRequests) = 2
    /\ Len(responses) = 1
    /\ movies # <<>>
    /\ stdout = <<Banner>>

\* ---------------------------------------------- properties of the classifier

UnitHasDetails == "items" \in DOMAIN unit.resp

UnitTitle == unit.video.title

\* the duration of the detail item, in seconds
UnitSeconds ==
    LET iso == unit.resp.items[1].contentDetails.duration
    IN  iso.hours * 3600 + iso.minutes * 60 + iso.seconds

UnitDescription == unit.resp.items[1].snippet.description

\* the video was classified and gave a record
UnitMovie == unit.ran /\ unit.movies # <<>>

MinOf(S) == CHOOSE k \in S : \A j \in S : k <= j
MaxOf(S) == CHOOSE k \in S : \A j \in S : j <= k

\* s without the whitespace around it
Trimmed(s) ==
    LET solid == {k \in 1..Len(s) : s[k] \notin Whitespace}
    IN  IF solid = {} THEN <<>> ELSE SubSeq(s, MinOf(solid), MaxOf(solid))

\* the places of the line breaks of s, and its k-th line
Breaks(s) == {k \in 1..Len(s) : s[k] = "\n"}
LineCount(s) == Cardinality(Breaks(s)) + 1
Line(s, k) ==
    SubSeq(s, IF k = 1 THEN 1 ELSE Nth(Breaks(s), k - 1) + 1,
              IF k = LineCount(s) THEN Len(s) ELSE Nth(Breaks(s), k) - 1)

\* the lines of s that are not blank
NonBlankLines(s) == {k \in 1..LineCount(s) : Trimmed(Line(s, k)) # <<>>}

\* the lines K of s, trimmed, with single spaces between them, or the
\* default when that is empty
DescriptionFrom(s, K) ==
    LET text == Join(<<" ">>, [j \in 1..Cardinality(K) |-> Trimmed(Line(s, Nth(K, j)))])
    IN  IF text = <<>> THEN NoDescription ELSE text

\* C1: a video with details of d seconds is left out when d is under 15
\* minutes, whatever its title and description; otherwise it gives exactly
\* one record, whose duration is floor(d / 60) and so at least 15; a video
\* without details gives none.
C1_FloorMinutesAndThreshold ==
    unit.ran =>
        IF ~UnitHasDetails THEN unit.movies = <<>>
        ELSE IF UnitSeconds < 15 * 60 THEN unit.movies = <<>>
        ELSE /\ Len(unit.movies) = 1
             /\ unit.movies[1].duration * 60 <= UnitSeconds
             /\ UnitSeconds < unit.movies[1].duration * 60 + 60
             /\ unit.movies[1].duration >= 15

\* a video of 14 minutes 59 seconds was classified and left out
C1_Witness ==
    /\ unit.ran
    /\ UnitHasDetails
    /\ UnitSeconds = 899
    /\ unit.movies = <<>>

\* C5 as stated: the description is made of the first 5 non-blank lines of
\* the raw description, wherever they are.
C5_FirstFiveNonBlankLines ==
    UnitMovie =>
        LET nb == NonBlankLines(UnitDescription)
            K  == {k \in nb : Cardinality({q \in nb : q < k}) < 5}
        IN  unit.movies[1].description = DescriptionFrom(UnitDescription, K)

\* C5, amended: the description is made of the non-blank lines among the
\* first 5 lines of the raw description, each trimmed, with single spaces
\* between them, and is "No description" when there is none: a description
\* whose first five lines are blank gives "No description" whatever follows.
C5_NonBlankAmongFirstFiveLines ==
    UnitMovie =>
        LET K == {k \in NonBlankLines(UnitDescription) : k <= 5}
        IN  unit.movies[1].description = DescriptionFrom(UnitDescription, K)

\* five blank lines, then a line that is not: the record says "No description"
C5_Witness ==
    /\ UnitMovie
    /\ LineCount(UnitDescription) > 5
    /\ \A k \in 1..5 : Trimmed(Line(UnitDescription, k)) = <<>>
    /\ NonBlankLines(UnitDescription) # {}
    /\ unit.movies[1].description = NoDescription

AyeIfe == <<"A","y","e"," ","I","f","e">>
BolaAina == <<"B","o","l","a"," ","A","i","n","a">>
KemiAfolabi == <<"K","e","m","i"," ","A","f","o","l","a","b","i">>
ScenarioJoined == <<"A"," ","r","o","m","a","n","t","i","c"," ","d","r","a","m","a","."," ","S","t","a","r","r","i","n","g"," ","B","o","l","a"," ","A","i","n","a"," ","a","n","d"," ","K","e","m","i"," ","A","f","o","l","a","b","i",".">>

\* C6: the scenario video of 5400 seconds gives the record with title
\* "Aye Ife", duration 90, the two description lines joined, and stars that
\* hold "Bola Aina" before "Kemi Afolabi" and none of Latest, Yoruba, Movie.
C6_Scenario ==
    (/\ unit.ran
     /\ UnitTitle = ScenarioTitle
     /\ UnitSeconds = 5400
     /\ UnitDescription = ScenarioDescription)
    => /\ Len(unit.movies) = 1
       /\ unit.movies[1].title = AyeIfe
       /\ unit.movies[1].duration = 90
       /\ unit.movies[1].description = ScenarioJoined
       /\ LET stars == unit.movies[1].stars
          IN  /\ \E a, b \in 1..Len(stars) :
                    a < b /\ stars[a] = BolaAina /\ stars[b] = KemiAfolabi
              /\ \A k \in 1..Len(stars) : stars[k] \notin {Latest, Yoruba, Movie}

\* the capitalized-word runs of the title followed by the description, in
\* text order, and those that are no stoplist term
UnitRuns == FindAll(UnitTitle \o <<" ">> \o UnitDescription, 1)
UnitCandidates == {k \in 1..Len(UnitRuns) : UnitRuns[k] \notin ignore}

UnitSeparators == {k \in 1..Len(UnitTitle) : UnitTitle[k] \in {"-", "|"}}
UnitBeforeSeparator ==
    IF UnitSeparators = {} THEN UnitTitle
    ELSE SubSeq(UnitTitle, 1, MinOf(UnitSeparators) - 1)

\* C8 as stated: with a separator the record's title is the text before the
\* first one, trimmed; without one it is the raw title, unchanged.
C8_NoSeparatorUnchanged ==
    UnitMovie =>
        IF UnitSeparators # {}
        THEN unit.movies[1].title = Trimmed(UnitBeforeSeparator)
        ELSE unit.movies[1].title = UnitTitle

\* C8, amended: the record's title is the text before the first separator,
\* or the whole raw title when it has none, in both cases trimmed of the
\* whitespace around it; so a title without separator comes out unchanged
\* only when no whitespace surrounds it.
C8_TrimmedBeforeSeparator ==
    UnitMovie =>
        /\ unit.movies[1].title = Trimmed(UnitBeforeSeparator)
        /\ (UnitSeparators = {}) =>
              ((unit.movies[1].title = UnitTitle)
                 = (UnitTitle = <<>> \/ (UnitTitle[1] \notin Whitespace
                                          /\ UnitTitle[Len(UnitTitle)] \notin Whitespace)))

\* a title without separator and with whitespace around it: the record's
\* title is the trimmed one, not the raw one
C8_Witness ==
    /\ UnitMovie
    /\ UnitSeparators = {}
    /\ UnitTitle # <<>> /\ UnitTitle[1] \in Whitespace
    /\ unit.movies[1].title # UnitTitle
    /\ unit.movies[1].title # <<>>

====
